---- MODULE Spec2Model ----
(***************************************************************************)
(* Feedback Signal Detector: the severity scoring and risk-ranking         *)
(* pipeline of src/src/index.ts (analyzeSeverity, generateRecommendation,  *)
(* getTopRisks) with its three collaborators: the D1 record store, the     *)
(* Workers AI classifier and the KV cache.                                 *)
(*                                                                         *)
(* JavaScript numbers are IEEE-754 binary64.  The score is a chain of      *)
(* double multiplications followed by Math.round, so the model carries a   *)
(* double as an exact pair (m, e) standing for m * 2^e, with m a natural    *)
(* number of at most 53 significant bits held as base-2^14 limbs (least    *)
(* significant first), and rounds every product to nearest, ties to even,  *)
(* as the hardware does.                                                   *)
(***************************************************************************)
EXTENDS Integers, Sequences, FiniteSets, TLC

(* ------------------------------ bounds -------------------------------- *)
MaxCount == 3
TickStep == 150
MaxTime == 320

(* ------------------- binary64 arithmetic on limbs --------------------- *)
LimbBase == 2^14

Max(a, b) == IF a >= b THEN a ELSE b

RECURSIVE BigTrim(_)
BigTrim(a) ==
    IF a = <<>> THEN <<>>
    ELSE IF a[Len(a)] = 0 THEN BigTrim(SubSeq(a, 1, Len(a) - 1))
    ELSE a

RECURSIVE BigOfInt(_)
BigOfInt(n) ==
    IF n = 0 THEN <<>> ELSE <<n % LimbBase>> \o BigOfInt(n \div LimbBase)

RECURSIVE BigToInt(_)
BigToInt(a) ==
    IF a = <<>> THEN 0 ELSE Head(a) + LimbBase * BigToInt(Tail(a))

RECURSIVE BigAddC(_, _, _)
BigAddC(a, b, carry) ==
    IF a = <<>> /\ b = <<>> THEN (IF carry = 0 THEN <<>> ELSE <<carry>>)
    ELSE LET x == IF a = <<>> THEN 0 ELSE Head(a)
             y == IF b = <<>> THEN 0 ELSE Head(b)
             t == x + y + carry
         IN  <<t % LimbBase>> \o
             BigAddC(IF a = <<>> THEN <<>> ELSE Tail(a),
                     IF b = <<>> THEN <<>> ELSE Tail(b), t \div LimbBase)

BigAdd(a, b) == BigAddC(a, b, 0)

RECURSIVE BigMulSmallC(_, _, _)
BigMulSmallC(a, k, carry) ==
    IF a = <<>> THEN (IF carry = 0 THEN <<>> ELSE <<carry>>)
    ELSE LET t == Head(a) * k + carry
         IN  <<t % LimbBase>> \o BigMulSmallC(Tail(a), k, t \div LimbBase)

BigMulSmall(a, k) == BigTrim(BigMulSmallC(a, k, 0))

RECURSIVE BigMul(_, _)
BigMul(a, b) ==
    IF a = <<>> \/ b = <<>> THEN <<>>
    ELSE BigAdd(BigMulSmall(b, Head(a)),
                LET r == BigMul(Tail(a), b) IN IF r = <<>> THEN <<>> ELSE <<0>> \o r)

RECURSIVE BigDivSmall(_, _)
BigDivSmall(a, d) ==
    IF a = <<>> THEN [q |-> <<>>, r |-> 0]
    ELSE LET hi == BigDivSmall(Tail(a), d)
             t  == hi.r * LimbBase + Head(a)
         IN  [q |-> BigTrim(<<t \div d>> \o hi.q), r |-> t % d]

RECURSIVE IntBitLen(_)
IntBitLen(n) == IF n = 0 THEN 0 ELSE 1 + IntBitLen(n \div 2)

BigBitLen(a) ==
    IF a = <<>> THEN 0 ELSE 14 * (Len(a) - 1) + IntBitLen(a[Len(a)])

BigShiftLeft(a, s) ==
    IF a = <<>> THEN <<>>
    ELSE [i \in 1..(s \div 14) |-> 0] \o BigMulSmall(a, 2^(s % 14))

BigShiftRight(a, s) ==
    LET w    == s \div 14
        kept == IF w >= Len(a) THEN <<>> ELSE SubSeq(a, w + 1, Len(a))
        d    == BigDivSmall(kept, 2^(s % 14))
    IN  [q |-> d.q,
         sticky |-> d.r # 0 \/ \E i \in 1..Len(a) : i <= w /\ a[i] # 0]

BigIsOdd(a) == a # <<>> /\ Head(a) % 2 = 1

RoundNearestEven(a, s, sticky0) ==
    IF s <= 0 THEN a
    ELSE LET sh == BigShiftRight(a, s - 1)
             q  == BigDivSmall(sh.q, 2).q
             up == BigIsOdd(sh.q) /\ (sh.sticky \/ sticky0 \/ BigIsOdd(q))
         IN  IF up THEN BigAdd(q, <<1>>) ELSE q

(* A JavaScript number: a finite positive double m * 2^e, or NaN. *)
NaNValue == [nan |-> TRUE, m |-> <<>>, e |-> 0]

DFromInt(n) == [nan |-> FALSE, m |-> BigOfInt(n), e |-> 0]

(* The double nearest to n/d: a decimal literal n/10, or the quotient of two
   doubles whose values are the integers n and d (division is correctly
   rounded). *)
DFromRatio(n, d) ==
    LET qr == BigDivSmall(BigShiftLeft(BigOfInt(n), 84), d)
        s  == Max(BigBitLen(qr.q) - 53, 0)
    IN  [nan |-> FALSE, m |-> RoundNearestEven(qr.q, s, qr.r # 0), e |-> s - 84]

(* x * y in binary64. *)
DMul(x, y) ==
    IF x.nan \/ y.nan THEN NaNValue
    ELSE LET p == BigMul(x.m, y.m)
             s == Max(BigBitLen(p) - 53, 0)
         IN  [nan |-> FALSE, m |-> RoundNearestEven(p, s, FALSE), e |-> x.e + y.e + s]

(* Integers that can also be NaN (in memory) or null (in JSON text). *)
NaN == 0 - 1
Null == 0 - 2

(* Math.round: the nearest integer, a half going up; NaN stays NaN. *)
MathRound(x) ==
    IF x.nan THEN NaN
    ELSE IF x.e >= 0 THEN BigToInt(BigShiftLeft(x.m, x.e))
    ELSE BigToInt(BigShiftRight(BigAdd(x.m, BigShiftLeft(<<1>>, -x.e - 1)), -x.e).q)

(* x > n for a double x and a non-negative integer n; a comparison with NaN
   is false. *)
DGreater(x, n) ==
    IF x.nan THEN FALSE
    ELSE IF x.e >= 0 THEN BigToInt(BigShiftLeft(x.m, x.e)) > n
    ELSE LET sh == BigShiftRight(x.m, -x.e)
         IN  BigToInt(sh.q) > n \/ (BigToInt(sh.q) = n /\ sh.sticky)

(* ------------------------- values of the model ------------------------ *)
(* A cohort row of the aggregate query (index.ts 105-114): category,
   user_type, count, samples (the complaints in GROUP_CONCAT order, each
   standing for its text) and avg_age_days, held in quarter days so that
   every age of the model is a double with an exact value: 2 is 0.5 days,
   4 is 1.0 and 28 is 7.0. *)
UserTypes == {"enterprise", "developer"}

Categories == {"performance", "reliability", "billing", "security", "data-loss",
               "dx", "documentation", "constructor"}

AgeQuarters == {0, 2, 3, 4, 12, 28, 32}

Row(category, user_type, count, age) ==
    [category |-> category, user_type |-> user_type, count |-> count,
     samples |-> [i \in 1..count |-> i], avg_age_days |-> age]

(* Property names every object literal inherits from Object.prototype: a
   lookup table[key] with such a key yields the inherited member, which is
   truthy and not a number. *)
ObjectPrototypeKeys ==
    {"constructor", "toString", "toLocaleString", "valueOf", "hasOwnProperty",
     "isPrototypeOf", "propertyIsEnumerable", "__proto__", "__defineGetter__",
     "__defineSetter__", "__lookupGetter__", "__lookupSetter__"}

(* ------------------------------ Scorer -------------------------------- *)
(* The weight of ARCHITECTURE.md: enterprise 2.5 (in tenths). *)
UserMultiplierDocumented(user_type) == IF user_type = "enterprise" THEN 25 ELSE 10

(* index.ts 123: enterprise 3.0, any other segment 1.0 (in tenths). *)
UserMultiplier(user_type) == IF user_type = "enterprise" THEN 30 ELSE 10

(* index.ts 127-133, the table in tenths. *)
criticalCategories ==
    ("performance" :> 20) @@ ("reliability" :> 18) @@ ("billing" :> 17) @@
    ("security" :> 25) @@ ("data-loss" :> 30)

(* index.ts 134: criticalCategories[row.category] || 1.0, as a double. *)
CategoryMultiplier(category) ==
    IF category \in DOMAIN criticalCategories
    THEN DFromRatio(criticalCategories[category], 10)
    ELSE IF category \in ObjectPrototypeKeys THEN NaNValue
    ELSE DFromRatio(10, 10)

(* index.ts 137: strict comparisons at 1 and 7 days (in tenths). *)
RecencyMultiplier(avg_age_days) ==
    IF avg_age_days < 4 THEN 15 ELSE IF avg_age_days < 28 THEN 12 ELSE 10

(* index.ts 182: count / Math.max(avg_age_days, 0.5). *)
Velocity(row) == DFromRatio(4 * row.count, Max(row.avg_age_days, 2))

(* The thresholds one lower: velocity > 4, else velocity > 1. *)
TrendLowered(row) ==
    IF DGreater(Velocity(row), 4) THEN "accelerating"
    ELSE IF DGreater(Velocity(row), 1) THEN "rising"
    ELSE "stable"

(* index.ts 183-185: velocity > 5, else velocity > 2, on the double. *)
Trend(row) ==
    IF DGreater(Velocity(row), 5) THEN "accelerating"
    ELSE IF DGreater(Velocity(row), 2) THEN "rising"
    ELSE "stable"

(* index.ts 199: Math.round(velocity * 10) / 10, held as the integer number
   of tenths. *)
ReportedVelocity(row) == MathRound(DMul(Velocity(row), DFromInt(10)))

(* index.ts 120-138, 175-176, 187, 196: the multiplier chain in source
   order; the sentiment and trend factors are multiplied in only when they
   apply. *)
Score(row, sentiment, trend) ==
    LET s0 == DFromInt(row.count * 10)
        s1 == DMul(s0, DFromRatio(UserMultiplier(row.user_type), 10))
        s2 == DMul(s1, CategoryMultiplier(row.category))
        s3 == DMul(s2, DFromRatio(RecencyMultiplier(row.avg_age_days), 10))
        s4 == IF sentiment = "critical" THEN DMul(s3, DFromRatio(14, 10))
              ELSE IF sentiment = "negative" THEN DMul(s3, DFromRatio(12, 10))
              ELSE s3
        s5 == IF trend = "accelerating" THEN DMul(s4, DFromRatio(13, 10)) ELSE s4
    IN  MathRound(s5)

(* ----------------------- Recommendation Engine ------------------------ *)
(* index.ts 223-229. *)
recommendations ==
    ("performance_enterprise_accelerating" :>
        "URGENT: Enterprise performance degradation. Escalate to engineering + customer success immediately.") @@
    ("billing_enterprise" :>
        "High churn risk. Schedule immediate call with affected accounts. Review billing clarity.") @@
    ("reliability_enterprise" :>
        "SLA breach risk. Engage SRE team. Prepare incident report.") @@
    ("dx_developer" :>
        "Developer experience issue. Prioritize docs update + devrel outreach.") @@
    ("documentation" :> "Update docs within 48h. Consider video tutorial.")

GenericRecommendation == "Monitor closely. Consider adding to sprint backlog."

Undefined == "undefined"

(* recommendations[key]: the entry, an inherited member, or undefined. *)
RecommendationEntry(key) ==
    IF key \in DOMAIN recommendations THEN recommendations[key]
    ELSE IF key \in ObjectPrototypeKeys THEN "Object.prototype." \o key
    ELSE Undefined

(* The lookup with one more fallback, on the category alone. *)
generateRecommendationByCategory(category, userType, trend, sentiment) ==
    LET key   == category \o "_" \o userType \o "_" \o trend
        short == category \o "_" \o userType
    IN  IF RecommendationEntry(key) # Undefined THEN RecommendationEntry(key)
        ELSE IF RecommendationEntry(short) # Undefined THEN RecommendationEntry(short)
        ELSE IF RecommendationEntry(category) # Undefined THEN RecommendationEntry(category)
        ELSE GenericRecommendation

(* index.ts 222-234. *)
generateRecommendation(category, userType, trend, sentiment) ==
    LET key   == category \o "_" \o userType \o "_" \o trend
        short == category \o "_" \o userType
    IN  IF RecommendationEntry(key) # Undefined THEN RecommendationEntry(key)
        ELSE IF RecommendationEntry(short) # Undefined THEN RecommendationEntry(short)
        ELSE GenericRecommendation

(* ----------------------- Sentiment integration ------------------------ *)
(* The classifier's answer is either a rejection of env.AI.run (an error or a
   timeout) or a response text.  A text is a sequence of tokens: the braces,
   a JSON member ("sentiment":"critical" is the token sentiment:critical) or
   a plain word. *)
Rejected == <<"rejected">>

SentimentMembers == {"sentiment:critical", "sentiment:negative", "sentiment:positive",
                     "sentiment:neutral", "sentiment:angry", "sentiment:"}

Members == SentimentMembers \cup {"confidence:90"}

(* index.ts 164: aiText.match(/\{[\s\S]*\}/), greedy: from the first "{" to
   the last "}" after it; <<>> when there is no match. *)
JsonMatch(aiText) ==
    LET opens  == {i \in 1..Len(aiText) : aiText[i] = "{"}
        closes == {i \in 1..Len(aiText) : aiText[i] = "}"}
    IN  IF opens = {} \/ closes = {} THEN <<>>
        ELSE LET first == CHOOSE i \in opens : \A j \in opens : i <= j
                 last  == CHOOSE i \in closes : \A j \in closes : i >= j
             IN  IF first < last THEN SubSeq(aiText, first, last) ELSE <<>>

(* JSON.parse accepts the matched text when it is one object: braces around
   no member or one member. *)
IsJsonObject(text) ==
    \/ text = <<"{", "}">>
    \/ Len(text) = 3 /\ text[1] = "{" /\ text[3] = "}" /\ text[2] \in Members

(* parsed.sentiment of an accepted object; Undefined when it has no such
   member. *)
SentimentField(text) ==
    IF Len(text) = 3 /\ text[2] \in SentimentMembers
    THEN CASE text[2] = "sentiment:critical" -> "critical"
           [] text[2] = "sentiment:negative" -> "negative"
           [] text[2] = "sentiment:positive" -> "positive"
           [] text[2] = "sentiment:neutral" -> "neutral"
           [] text[2] = "sentiment:angry" -> "angry"
           [] text[2] = "sentiment:" -> ""
    ELSE Undefined

(* aiText.toLowerCase().includes(word): the word occurs in the text, alone
   or as the value of a member. *)
Includes(aiText, word) ==
    \E i \in 1..Len(aiText) : aiText[i] \in {word, "sentiment:" \o word}

(* index.ts 171-172. *)
KeywordSentiment(aiText) ==
    IF Includes(aiText, "critical") THEN "critical"
    ELSE IF Includes(aiText, "negative") THEN "negative"
    ELSE "neutral"

(* index.ts 141: let sentiment = 'neutral'. *)
InitialSentimentNegative == "negative"

InitialSentiment == "neutral"

(* index.ts 141-179: the sentiment after the try block.  A rejected call and
   a JSON.parse that throws both land in the catch with sentiment as it was
   initialised. *)
Sentiment(response) ==
    IF response = Rejected THEN InitialSentiment
    ELSE LET jsonMatch == JsonMatch(response)
         IN  IF jsonMatch # <<>>
             THEN IF ~IsJsonObject(jsonMatch) THEN InitialSentiment
                  ELSE IF SentimentField(jsonMatch) \in {Undefined, ""} THEN "neutral"
                  ELSE SentimentField(jsonMatch)
             ELSE KeywordSentiment(response)

(* ------------------------- Result Assembler --------------------------- *)
(* index.ts 200: row.samples.split(' ||| ').slice(0, 3). *)
SampleFeedback(samples) ==
    SubSeq(samples, 1, IF Len(samples) < 3 THEN Len(samples) ELSE 3)

(* index.ts 118-203: the RiskAnalysis pushed for one row, given the
   classifier's answer for it. *)
Assess(row, response) ==
    [category |-> row.category,
     user_type |-> row.user_type,
     complaint_count |-> row.count,
     severity_score |-> Score(row, Sentiment(response), Trend(row)),
     sentiment |-> Sentiment(response),
     trend |-> Trend(row),
     velocity |-> ReportedVelocity(row),
     sample_feedback |-> SampleFeedback(row.samples),
     recommendation |->
         generateRecommendation(row.category, row.user_type, Trend(row),
                                Sentiment(response))]

(* index.ts 205: the comparator (a, b) => b.severity_score - a.severity_score;
   a NaN difference counts as +0. *)
Compare(a, b) ==
    IF a.severity_score = NaN \/ b.severity_score = NaN THEN 0
    ELSE b.severity_score - a.severity_score

(* One step of a stable sort: r, which came after every element of sorted,
   goes behind the elements it does not precede. *)
RECURSIVE InsertRisk(_, _)
InsertRisk(sorted, r) ==
    IF sorted = <<>> THEN <<r>>
    ELSE IF Compare(sorted[Len(sorted)], r) <= 0 THEN Append(sorted, r)
    ELSE Append(InsertRisk(SubSeq(sorted, 1, Len(sorted) - 1), r), sorted[Len(sorted)])

RECURSIVE StableSort(_)
StableSort(risks) ==
    IF risks = <<>> THEN <<>>
    ELSE InsertRisk(StableSort(SubSeq(risks, 1, Len(risks) - 1)), risks[Len(risks)])

Rearrangements(risks) ==
    {[i \in 1..Len(risks) |-> risks[f[i]]] : f \in Permutations(1..Len(risks))}

(* index.ts 205: risks.sort(...).  Array.prototype.sort is stable, so with
   numeric scores the result is unique.  With a NaN score the comparator is
   not consistent and the language leaves the resulting order to the
   implementation: any rearrangement. *)
SortOutcomes(risks) ==
    IF \E i \in 1..Len(risks) : risks[i].severity_score = NaN
    THEN Rearrangements(risks)
    ELSE {StableSort(risks)}

(* index.ts 210: risks.filter(r => r.severity_score > 100).length. *)
CriticalCountInclusive(risks) ==
    Cardinality({i \in 1..Len(risks) :
        risks[i].severity_score # NaN /\ risks[i].severity_score >= 100})

CriticalCount(risks) ==
    Cardinality({i \in 1..Len(risks) :
        risks[i].severity_score # NaN /\ risks[i].severity_score > 100})

(* index.ts 211: risks.slice(0, 5). *)
TopRisksThree(risks) == SubSeq(risks, 1, IF Len(risks) < 3 THEN Len(risks) ELSE 3)

TopRisks(risks) == SubSeq(risks, 1, IF Len(risks) < 5 THEN Len(risks) ELSE 5)

(* index.ts 207-214, with the sorted risks and the time of new Date(). *)
Analysis(risks, time) ==
    [analysis_time |-> time,
     total_risks |-> Len(risks),
     critical_count |-> CriticalCount(risks),
     top_risks |-> TopRisks(risks),
     all_risks |-> risks,
     cached |-> FALSE]

(* ------------------------------- JSON --------------------------------- *)
(* JSON text is held as the tuple of the member values in the order they
   are written; JSON has no NaN, a NaN number is written as null. *)
JsonNumber(n) == IF n = NaN THEN Null ELSE n

(* A recommendation that is an inherited member of the table: JSON drops a
   member whose value is a function and writes Object.prototype as {}. *)
JsonRecommendation(v) ==
    IF v = "Object.prototype.__proto__" THEN "{}"
    ELSE IF v \in {"Object.prototype." \o k : k \in ObjectPrototypeKeys} THEN Undefined
    ELSE v

RiskText(r) ==
    <<r.category, r.user_type, r.complaint_count, JsonNumber(r.severity_score),
      r.sentiment, r.trend, r.velocity, r.sample_feedback,
      JsonRecommendation(r.recommendation)>>

RiskOfText(t) ==
    [category |-> t[1], user_type |-> t[2], complaint_count |-> t[3],
     severity_score |-> t[4], sentiment |-> t[5], trend |-> t[6],
     velocity |-> t[7], sample_feedback |-> t[8], recommendation |-> t[9]]

(* index.ts 217: JSON.stringify(analysis). *)
JSONStringify(a) ==
    <<a.analysis_time, a.total_risks, a.critical_count,
      [i \in 1..Len(a.top_risks) |-> RiskText(a.top_risks[i])],
      [i \in 1..Len(a.all_risks) |-> RiskText(a.all_risks[i])],
      a.cached>>

(* index.ts 100: the 'json' type of CACHE.get, JSON.parse of the text. *)
JSONParse(t) ==
    [analysis_time |-> t[1], total_risks |-> t[2], critical_count |-> t[3],
     top_risks |-> [i \in 1..Len(t[4]) |-> RiskOfText(t[4][i])],
     all_risks |-> [i \in 1..Len(t[5]) |-> RiskOfText(t[5][i])],
     cached |-> t[6]]

(* index.ts 102, 219: the body of Response.json(value) as a caller reads it. *)
ResponseJson(value) == [status |-> "ok", body |-> JSONParse(JSONStringify(value))]

(* A rejected promise of the handler: the error of the call that threw. *)
ResponseError(call) == [status |-> "error", error |-> call]

NoResponse == [status |-> "none"]

(* index.ts 217: the text written to the cache. *)
CacheValueFlagged(value) == JSONStringify([value EXCEPT !.cached = TRUE])

CacheValue(value) == JSONStringify(value)

(* index.ts 102: { ...cached, cached: true }. *)
CacheHitUnflagged(cached) == cached

CacheHit(cached) == [cached EXCEPT !.cached = TRUE]

(* ------------------------- the top-risks view ------------------------- *)
NoCriticalIssues == "No critical issues detected"

(* index.ts 236-248: the body of the response of getTopRisks, from the
   parsed body of analyzeSeverity's response and the time of new Date();
   data.top_risks[0]?.recommendation || '...' takes the fixed string when
   there is no first risk or its recommendation is missing or empty. *)
getTopRisks(data, time) ==
    [timestamp |-> time,
     critical_alerts |->
         SubSeq(data.top_risks, 1,
                IF Len(data.top_risks) < 3 THEN Len(data.top_risks) ELSE 3),
     summary |->
         [total_critical |-> data.critical_count,
          recommendation |->
              IF Len(data.top_risks) > 0
                 /\ data.top_risks[1].recommendation \notin {Undefined, ""}
              THEN data.top_risks[1].recommendation
              ELSE NoCriticalIssues]]

(* --------------------------- the state machine ------------------------ *)
VARIABLES
    db,        \* the record store, as the rows its aggregate query returns now
    hasCache,  \* whether the CACHE binding exists (env.CACHE?.)
    kv,        \* the KV entry under 'analysis:latest', with the rows and the
               \* classifier answers its writer computed it from
    now,       \* the clock, in seconds
    pc,        \* per invocation: the external call it is waiting for
    cached,    \* per invocation: const cached (index.ts 100)
    results,   \* per invocation: const { results } (index.ts 105)
    risks,     \* per invocation: const risks (index.ts 116)
    analysis,  \* per invocation: const analysis (index.ts 207)
    response,  \* per invocation: what analyzeSeverity returned
    aiLog,     \* per invocation: the classifier's answer for each row so far
    calls,     \* per invocation: the external calls made so far, by kind
    faults,    \* per invocation: the cache and store calls that failed
    origin,    \* per invocation: on a hit, what the writer of the entry returned
    route,     \* per invocation: the handler that called analyzeSeverity
    view       \* per invocation: what getTopRisks returned

vars == <<db, hasCache, kv, now, pc, cached, results, risks, analysis, response,
          aiLog, calls, faults, origin, route, view>>

Invocations == {"r1", "r2"}

(* index.ts 50-57: /api/analyze returns analyzeSeverity's response,
   /api/risks the response of getTopRisks, which calls analyzeSeverity. *)
Routes == {"analyze", "risks"}

(* index.ts 217: { expirationTtl: 300 }. *)
expirationTtl == 300

NoValue == [none |-> TRUE]
NoEntry == [present |-> FALSE]
NoCalls == [get |-> 0, query |-> 0, ai |-> 0, put |-> 0]

(* index.ts 56, 236-248: what the route's handler makes of analyzeSeverity's
   response. *)
ViewOf(r, resp, time) ==
    IF r = "risks" THEN getTopRisks(resp.body, time) ELSE NoValue

(* KV get: the stored text while it has not expired. *)
Live(entry, time) == entry.present /\ time < entry.expires

InitWith(stores) ==
    /\ db \in stores
    /\ hasCache \in BOOLEAN
    /\ kv = NoEntry
    /\ now = 0
    /\ pc = [p \in Invocations |-> "idle"]
    /\ cached = [p \in Invocations |-> NoValue]
    /\ results = [p \in Invocations |-> <<>>]
    /\ risks = [p \in Invocations |-> <<>>]
    /\ analysis = [p \in Invocations |-> NoValue]
    /\ response = [p \in Invocations |-> NoResponse]
    /\ aiLog = [p \in Invocations |-> <<>>]
    /\ calls = [p \in Invocations |-> NoCalls]
    /\ faults = [p \in Invocations |-> {}]
    /\ origin = [p \in Invocations |-> NoValue]
    /\ route = [p \in Invocations |-> "analyze"]
    /\ view = [p \in Invocations |-> NoValue]

(* A request for route r arrives: analyzeSeverity starts and issues the
   cache read (index.ts 97-100). *)
Request(p, r) ==
    /\ pc[p] \in {"idle", "done"}
    /\ pc' = [pc EXCEPT ![p] = "cache_get"]
    /\ cached' = [cached EXCEPT ![p] = NoValue]
    /\ results' = [results EXCEPT ![p] = <<>>]
    /\ risks' = [risks EXCEPT ![p] = <<>>]
    /\ analysis' = [analysis EXCEPT ![p] = NoValue]
    /\ response' = [response EXCEPT ![p] = NoResponse]
    /\ aiLog' = [aiLog EXCEPT ![p] = <<>>]
    /\ calls' = [calls EXCEPT ![p] = NoCalls]
    /\ faults' = [faults EXCEPT ![p] = {}]
    /\ origin' = [origin EXCEPT ![p] = NoValue]
    /\ route' = [route EXCEPT ![p] = r]
    /\ view' = [view EXCEPT ![p] = NoValue]
    /\ UNCHANGED <<db, hasCache, kv, now>>

(* The cache read taking an entry computed with a failed classifier call
   for a miss. *)
CacheGetSkipsDegraded(p) ==
    /\ pc[p] = "cache_get"
    /\ calls' = [calls EXCEPT ![p].get = IF hasCache THEN @ + 1 ELSE @]
    /\ IF hasCache /\ Live(kv, now)
          /\ ~(\E i \in 1..Len(kv.answers) : kv.answers[i] = Rejected)
       THEN /\ cached' = [cached EXCEPT ![p] = JSONParse(kv.text)]
            /\ response' = [response EXCEPT ![p] = ResponseJson(CacheHit(cached'[p]))]
            /\ origin' = [origin EXCEPT ![p] = kv.returned]
            /\ view' = [view EXCEPT ![p] = ViewOf(route[p], response'[p], now)]
            /\ pc' = [pc EXCEPT ![p] = "done"]
       ELSE /\ pc' = [pc EXCEPT ![p] = "db_query"]
            /\ UNCHANGED <<cached, response, origin, view>>
    /\ UNCHANGED <<db, hasCache, kv, now, results, risks, analysis, aiLog, faults, route>>

(* index.ts 100-103: the cache read returns.  A stored value is returned
   with cached: true; otherwise the store query is issued. *)
CacheGet(p) ==
    /\ pc[p] = "cache_get"
    /\ calls' = [calls EXCEPT ![p].get = IF hasCache THEN @ + 1 ELSE @]
    /\ IF hasCache /\ Live(kv, now)
       THEN /\ cached' = [cached EXCEPT ![p] = JSONParse(kv.text)]
            /\ response' = [response EXCEPT ![p] = ResponseJson(CacheHit(cached'[p]))]
            /\ origin' = [origin EXCEPT ![p] = kv.returned]
            /\ view' = [view EXCEPT ![p] = ViewOf(route[p], response'[p], now)]
            /\ pc' = [pc EXCEPT ![p] = "done"]
       ELSE /\ pc' = [pc EXCEPT ![p] = "db_query"]
            /\ UNCHANGED <<cached, response, origin, view>>
    /\ UNCHANGED <<db, hasCache, kv, now, results, risks, analysis, aiLog, faults, route>>

(* index.ts 100: the awaited cache read rejects; nothing catches it. *)
CacheGetFails(p) ==
    /\ pc[p] = "cache_get"
    /\ hasCache
    /\ calls' = [calls EXCEPT ![p].get = @ + 1]
    /\ faults' = [faults EXCEPT ![p] = @ \cup {"cache_get"}]
    /\ response' = [response EXCEPT ![p] = ResponseError("cache_get")]
    /\ pc' = [pc EXCEPT ![p] = "done"]
    /\ UNCHANGED <<db, hasCache, kv, now, cached, results, risks, analysis, aiLog, origin,
                   route, view>>

(* index.ts 205-214 once every row has been processed: sort and package. *)
Assemble(p, all) ==
    \E sorted \in SortOutcomes(all) :
        /\ analysis' = [analysis EXCEPT ![p] = Analysis(sorted, now)]
        /\ pc' = [pc EXCEPT ![p] = "cache_put"]

(* index.ts 105-116: the aggregate query returns its rows; the loop issues
   the classifier call for the first row, or ends at once without rows. *)
DbQuery(p) ==
    /\ pc[p] = "db_query"
    /\ calls' = [calls EXCEPT ![p].query = @ + 1]
    /\ results' = [results EXCEPT ![p] = db]
    /\ IF db = <<>>
       THEN Assemble(p, <<>>)
       ELSE /\ pc' = [pc EXCEPT ![p] = "ai_run"]
            /\ UNCHANGED analysis
    /\ UNCHANGED <<db, hasCache, kv, now, cached, risks, response, aiLog, faults, origin,
                   route, view>>

(* index.ts 105-114: the query throws; nothing catches it. *)
DbQueryFailsEmpty(p) ==
    /\ pc[p] = "db_query"
    /\ calls' = [calls EXCEPT ![p].query = @ + 1]
    /\ faults' = [faults EXCEPT ![p] = @ \cup {"db_query"}]
    /\ Assemble(p, <<>>)
    /\ UNCHANGED <<db, hasCache, kv, now, cached, results, risks, response, aiLog, origin,
                   route, view>>

DbQueryFails(p) ==
    /\ pc[p] = "db_query"
    /\ calls' = [calls EXCEPT ![p].query = @ + 1]
    /\ faults' = [faults EXCEPT ![p] = @ \cup {"db_query"}]
    /\ response' = [response EXCEPT ![p] = ResponseError("db_query")]
    /\ pc' = [pc EXCEPT ![p] = "done"]
    /\ UNCHANGED <<db, hasCache, kv, now, cached, results, risks, analysis, aiLog, origin,
                   route, view>>

(* The loop body going to the sort after the first row. *)
AiRunEndsEarly(p, answer) ==
    /\ pc[p] = "ai_run"
    /\ calls' = [calls EXCEPT ![p].ai = @ + 1]
    /\ aiLog' = [aiLog EXCEPT ![p] = Append(@, answer)]
    /\ risks' = [risks EXCEPT ![p] =
                    Append(@, Assess(results[p][Len(risks[p]) + 1], answer))]
    /\ Assemble(p, risks'[p])
    /\ UNCHANGED <<db, hasCache, kv, now, cached, results, response, faults, origin,
                   route, view>>

(* The loop body with a second attempt after a rejected classifier call. *)
AiRunRetries(p, answer) ==
    /\ pc[p] = "ai_run"
    /\ calls' = [calls EXCEPT ![p].ai = IF answer = Rejected THEN @ + 2 ELSE @ + 1]
    /\ aiLog' = [aiLog EXCEPT ![p] = Append(@, answer)]
    /\ risks' = [risks EXCEPT ![p] =
                    Append(@, Assess(results[p][Len(risks[p]) + 1], answer))]
    /\ IF Len(risks'[p]) = Len(results[p])
       THEN Assemble(p, risks'[p])
       ELSE UNCHANGED <<pc, analysis>>
    /\ UNCHANGED <<db, hasCache, kv, now, cached, results, response, faults, origin,
                   route, view>>

(* index.ts 118-203: the classifier call for the current row ends with
   answer; its risk is pushed and the loop goes to the next row, or past the
   last one to the sort. *)
AiRun(p, answer) ==
    /\ pc[p] = "ai_run"
    /\ calls' = [calls EXCEPT ![p].ai = @ + 1]
    /\ aiLog' = [aiLog EXCEPT ![p] = Append(@, answer)]
    /\ risks' = [risks EXCEPT ![p] =
                    Append(@, Assess(results[p][Len(risks[p]) + 1], answer))]
    /\ IF Len(risks'[p]) = Len(results[p])
       THEN Assemble(p, risks'[p])
       ELSE UNCHANGED <<pc, analysis>>
    /\ UNCHANGED <<db, hasCache, kv, now, cached, results, response, faults, origin,
                   route, view>>

(* The cache write leaving a live entry of another invocation in place. *)
CachePutKeepsFirst(p) ==
    /\ pc[p] = "cache_put"
    /\ IF hasCache
       THEN /\ kv' = IF Live(kv, now) THEN kv
                     ELSE [present |-> TRUE, text |-> CacheValue(analysis[p]),
                           expires |-> now + expirationTtl,
                           returned |-> ResponseJson(analysis[p]).body,
                           rows |-> results[p], answers |-> aiLog[p]]
            /\ calls' = [calls EXCEPT ![p].put = @ + 1]
       ELSE UNCHANGED <<kv, calls>>
    /\ response' = [response EXCEPT ![p] = ResponseJson(analysis[p])]
    /\ view' = [view EXCEPT ![p] = ViewOf(route[p], response'[p], now)]
    /\ pc' = [pc EXCEPT ![p] = "done"]
    /\ UNCHANGED <<db, hasCache, now, cached, results, risks, analysis, aiLog, faults, origin,
                   route>>

(* index.ts 216-219: the cache write (skipped without a binding) and the
   response with cached: false. *)
CachePut(p) ==
    /\ pc[p] = "cache_put"
    /\ IF hasCache
       THEN /\ kv' = [present |-> TRUE, text |-> CacheValue(analysis[p]),
                      expires |-> now + expirationTtl,
                      returned |-> ResponseJson(analysis[p]).body,
                      rows |-> results[p], answers |-> aiLog[p]]
            /\ calls' = [calls EXCEPT ![p].put = @ + 1]
       ELSE UNCHANGED <<kv, calls>>
    /\ response' = [response EXCEPT ![p] = ResponseJson(analysis[p])]
    /\ view' = [view EXCEPT ![p] = ViewOf(route[p], response'[p], now)]
    /\ pc' = [pc EXCEPT ![p] = "done"]
    /\ UNCHANGED <<db, hasCache, now, cached, results, risks, analysis, aiLog, faults, origin,
                   route>>

(* index.ts 217: the awaited cache write rejects; nothing catches it. *)
CachePutFails(p) ==
    /\ pc[p] = "cache_put"
    /\ hasCache
    /\ calls' = [calls EXCEPT ![p].put = @ + 1]
    /\ faults' = [faults EXCEPT ![p] = @ \cup {"cache_put"}]
    /\ response' = [response EXCEPT ![p] = ResponseError("cache_put")]
    /\ pc' = [pc EXCEPT ![p] = "done"]
    /\ UNCHANGED <<db, hasCache, kv, now, cached, results, risks, analysis, aiLog, origin,
                   route, view>>

(* Time passes. *)
Tick ==
    /\ now + TickStep <= MaxTime
    /\ now' = now + TickStep
    /\ UNCHANGED <<db, hasCache, kv, pc, cached, results, risks, analysis, response,
                   aiLog, calls, faults, origin,
                   route, view>>

(* The record store changes under the pipeline. *)
StoreChange(rows) ==
    /\ rows # db
    /\ db' = rows
    /\ UNCHANGED <<hasCache, kv, now, pc, cached, results, risks, analysis, response,
                   aiLog, calls, faults, origin,
                   route, view>>

(* --------------------------- specifications --------------------------- *)
(* The answers of the classifier. *)
CriticalJson == <<"{", "sentiment:critical", "}">>

Answers ==
    {Rejected,
     CriticalJson,
     <<"{", "sentiment:negative", "}">>,
     <<"{", "sentiment:positive", "}">>,
     <<"{", "sentiment:angry", "}">>,
     <<"{", "confidence:90", "}">>,
     <<"{", "critical", "}">>,
     <<"ok", "{", "sentiment:negative", "}", "ok">>,
     <<"{", "sentiment:critical", "}", "{", "}">>,
     <<"critical">>,
     <<"negative">>,
     <<>>}

(* Two concurrent requests over a store that holds at most one cohort and
   changes under them, with the clock and the TTL. *)
ExampleRow == Row("performance", "enterprise", 3, 2)

ConcStores == {<<>>, <<ExampleRow>>, <<Row("billing", "enterprise", 2, 28)>>}

ConcAnswers == {Rejected, CriticalJson}

Init == InitWith(ConcStores)

Next ==
    \/ \E p \in Invocations : Request(p, "analyze")
    \/ \E p \in Invocations : CacheGet(p)
    \/ \E p \in Invocations : CacheGetFails(p)
    \/ \E p \in Invocations : DbQuery(p)
    \/ \E p \in Invocations : DbQueryFails(p)
    \/ \E p \in Invocations, answer \in ConcAnswers : AiRun(p, answer)
    \/ \E p \in Invocations : CachePut(p)
    \/ \E p \in Invocations : CachePutFails(p)
    \/ Tick
    \/ \E rows \in ConcStores : StoreChange(rows)

Spec == Init /\ [][Next]_vars

(* One client, every cohort row of the bounds alone in the store, every
   answer of the classifier; and cohorts of five complaints, whose velocity
   is exactly 5 at one day and 0.25 at twenty, and a cohort whose category
   and user_type join into the name of an inherited member. *)
ScoreStores ==
    {<<Row(c, u, n, a)>> : c \in Categories, u \in UserTypes,
                           n \in 1..MaxCount, a \in AgeQuarters}
    \cup {<<Row("dx", "developer", 5, a)>> : a \in {3, 4, 5, 80}}
    \cup {<<Row("_", "proto__", 1, 28)>>}

InitScore == InitWith(ScoreStores)

NextScore ==
    \/ \E r \in Routes : Request("r1", r)
    \/ CacheGet("r1")
    \/ CacheGetFails("r1")
    \/ DbQuery("r1")
    \/ DbQueryFails("r1")
    \/ \E answer \in Answers : AiRun("r1", answer)
    \/ CachePut("r1")
    \/ CachePutFails("r1")

SpecScore == InitScore /\ [][NextScore]_vars

(* One client, on either route, over stores of up to six cohorts, with
   equal scores, scores at and around 100, a score that is not a number and
   a recommendation that is an inherited member. *)
RankRows ==
    <<Row("dx", "developer", 1, 28),
      Row("billing", "enterprise", 2, 28),
      Row("documentation", "developer", 1, 28),
      Row("security", "developer", 4, 28),
      Row("dx", "enterprise", 1, 28),
      Row("performance", "enterprise", 3, 2)>>

NaNRows ==
    <<Row("dx", "developer", 1, 28),
      Row("constructor", "developer", 1, 28),
      Row("billing", "developer", 2, 28)>>

InheritedRows ==
    <<Row("__defineGetter", "_", 1, 28),
      Row("dx", "developer", 1, 28)>>

RankStores ==
    {SubSeq(RankRows, 1, n) : n \in 0..Len(RankRows)} \cup {NaNRows, InheritedRows}

RankAnswers == {Rejected, CriticalJson, <<"negative">>}

InitRank == InitWith(RankStores)

NextRank ==
    \/ \E r \in Routes : Request("r1", r)
    \/ CacheGet("r1")
    \/ CacheGetFails("r1")
    \/ DbQuery("r1")
    \/ DbQueryFails("r1")
    \/ \E answer \in RankAnswers : AiRun("r1", answer)
    \/ CachePut("r1")
    \/ CachePutFails("r1")

SpecRank == InitRank /\ [][NextRank]_vars

(* ------------------------------- claims ------------------------------- *)
(* The invocations that ended by returning an AnalysisResult, from the
   cache or freshly computed. *)
Returned(p) == pc[p] = "done" /\ response[p].status = "ok"

Hit(p) == Returned(p) /\ response[p].body.cached

Fresh(p) == Returned(p) /\ ~response[p].body.cached

(* The product of claim C1 in thousandths, with exact arithmetic. *)
ClaimedProduct(row, sentiment, trend) ==
    row.count
    * (IF row.user_type = "enterprise" THEN 3 ELSE 1)
    * (CASE row.category = "performance" -> 20
         [] row.category = "reliability" -> 18
         [] row.category = "billing" -> 17
         [] row.category = "security" -> 25
         [] row.category = "data-loss" -> 30
         [] OTHER -> 10)
    * (IF row.avg_age_days < 4 THEN 15 ELSE IF row.avg_age_days < 28 THEN 12 ELSE 10)
    * (IF sentiment = "critical" THEN 14 ELSE IF sentiment = "negative" THEN 12 ELSE 10)
    * (IF trend = "accelerating" THEN 13 ELSE 10)

RoundHalfUp(thousandths) == (2 * thousandths + 1000) \div 2000

(* C1: on a cache miss every cohort's severity_score is the round-half-up of
   count*10 * user * category * recency * sentiment * trend, with the reported
   sentiment and trend. *)
C1_ScoreIsRoundedProduct ==
    \A p \in Invocations : \A i \in 1..Len(risks[p]) :
        risks[p][i].severity_score =
            RoundHalfUp(ClaimedProduct(results[p][i], risks[p][i].sentiment,
                                       risks[p][i].trend))

(* C2: a read of a stored, unexpired value ends the invocation with that
   payload, every field unchanged but cached, which is true, and with no
   store query, no classifier call and no cache write. *)
C2_CacheHitVerbatim ==
    [][\A p \in Invocations :
         (/\ pc[p] = "cache_get" /\ pc'[p] # "cache_get"
          /\ hasCache /\ kv.present /\ now < kv.expires
          /\ "cache_get" \notin faults'[p])
         => /\ pc'[p] = "done"
            /\ response'[p] = [status |-> "ok",
                               body |-> [JSONParse(kv.text) EXCEPT !.cached = TRUE]]
            /\ calls'[p] = [get |-> 1, query |-> 0, ai |-> 0, put |-> 0]
            /\ kv' = kv]_vars

(* C2 witness: a hit returned after the store changed: the payload counts
   other cohorts than the store holds now. *)
C2_Witness ==
    \E p \in Invocations : Hit(p) /\ response[p].body.total_risks # Len(db)

(* C3: a rejected classifier call leaves its cohort with sentiment neutral
   and the score without a sentiment multiplier, every cohort's assessment
   depends on its own row and answer alone, and the invocation returns a
   complete result unless a cache or store call fails. *)
C3_ClassifierFailureIsLocal ==
    \A p \in Invocations :
        /\ \A i \in 1..Len(risks[p]) :
              /\ aiLog[p][i] = Rejected =>
                    /\ risks[p][i].sentiment = "neutral"
                    /\ risks[p][i].severity_score =
                           Score(results[p][i], "neutral", risks[p][i].trend)
              /\ risks[p][i] = Assess(results[p][i], aiLog[p][i])
        /\ (pc[p] = "done" /\ faults[p] = {} /\ cached[p] = NoValue) =>
              /\ Fresh(p)
              /\ Len(response[p].body.all_risks) = Len(results[p])
              /\ \A i \in 1..Len(results[p]) : aiLog[p][i] = Rejected =>
                    \E j \in 1..Len(results[p]) :
                        /\ response[p].body.all_risks[j].category = results[p][i].category
                        /\ response[p].body.all_risks[j].user_type = results[p][i].user_type
                        /\ response[p].body.all_risks[j].sentiment = "neutral"

(* C3 witness: a returned result in which one cohort's call was rejected and
   another cohort was classified critical. *)
C3_Witness ==
    \E p \in Invocations :
        /\ Fresh(p)
        /\ \E i, j \in 1..Len(risks[p]) :
              /\ aiLog[p][i] = Rejected
              /\ aiLog[p][j] = CriticalJson
              /\ risks[p][j].sentiment = "critical"

(* C4: when the aggregate query fails the invocation ends with an error, no
   AnalysisResult exists, no classifier call was made and nothing was
   written to the cache. *)
C4_StoreFailureIsFatal ==
    \A p \in Invocations : "db_query" \in faults[p] =>
        /\ pc[p] = "done"
        /\ response[p].status = "error"
        /\ analysis[p] = NoValue
        /\ risks[p] = <<>>
        /\ calls[p].ai = 0
        /\ calls[p].put = 0

(* C4 witness: a query that failed after a cache read that missed. *)
C4_Witness ==
    \E p \in Invocations :
        "db_query" \in faults[p] /\ calls[p].get = 1 /\ response[p].status = "error"

(* C5: a cache failure is never fatal: an invocation whose store query did
   not fail returns an AnalysisResult, and with the cache absent or failing
   it is a complete one with cached = false. *)
C5_CacheFailureNotFatal ==
    \A p \in Invocations : (pc[p] = "done" /\ "db_query" \notin faults[p]) =>
        /\ response[p].status = "ok"
        /\ (~hasCache \/ faults[p] # {}) =>
              /\ ~response[p].body.cached
              /\ response[p].body.total_risks = Len(results[p])

(* The position, among the rows of the query, of the cohort a risk is about. *)
RowIndex(rows, risk) ==
    CHOOSE k \in 1..Len(rows) :
        rows[k].category = risk.category /\ rows[k].user_type = risk.user_type

(* C6: in every AnalysisResult computed on a miss, all_risks is in order of
   non-increasing severity_score, and entries with equal scores keep the
   order of their rows in the query result. *)
C6_SortedStable ==
    \A p \in Invocations : analysis[p] # NoValue =>
        LET a == analysis[p].all_risks
        IN  \A i, j \in 1..Len(a) :
                (i < j /\ a[i].severity_score # NaN /\ a[j].severity_score # NaN) =>
                    /\ a[i].severity_score >= a[j].severity_score
                    /\ a[i].severity_score = a[j].severity_score =>
                          RowIndex(results[p], a[i]) < RowIndex(results[p], a[j])

(* C7: in every returned AnalysisResult top_risks is the first min(5,
   total_risks) entries of all_risks, total_risks is the length of all_risks,
   no two entries are about the same cohort, and a fresh result has exactly
   one entry for each row of its query. *)
C7_TopRisksPrefix ==
    \A p \in Invocations : Returned(p) =>
        LET b == response[p].body
            a == b.all_risks
        IN  /\ b.total_risks = Len(a)
            /\ b.top_risks = SubSeq(a, 1, IF b.total_risks < 5 THEN b.total_risks ELSE 5)
            /\ \A i, j \in 1..Len(a) :
                  (a[i].category = a[j].category /\ a[i].user_type = a[j].user_type)
                      => i = j
            /\ Fresh(p) =>
                  /\ Len(a) = Len(results[p])
                  /\ \A k \in 1..Len(results[p]) : \E i \in 1..Len(a) :
                        /\ a[i].category = results[p][k].category
                        /\ a[i].user_type = results[p][k].user_type

(* C7 witness: a result of six risks returned from the cache, with the five
   first as top_risks. *)
C7_Witness ==
    \E p \in Invocations :
        /\ Hit(p)
        /\ response[p].body.total_risks = 6
        /\ Len(response[p].body.top_risks) = 5

(* C8: in every returned AnalysisResult critical_count is the number of
   entries of all_risks with a score strictly above 100. *)
C8_CriticalCount ==
    \A p \in Invocations : Returned(p) =>
        LET b == response[p].body
        IN  b.critical_count =
                Cardinality({i \in 1..Len(b.all_risks) :
                                b.all_risks[i].severity_score > 100})

(* C8 witness: a returned result with a score of exactly 100 that is not
   counted and a higher score that is. *)
C8_Witness ==
    \E p \in Invocations :
        /\ Returned(p)
        /\ \E i, j \in 1..Len(response[p].body.all_risks) :
              /\ response[p].body.all_risks[i].severity_score = 100
              /\ response[p].body.all_risks[j].severity_score > 100
        /\ response[p].body.critical_count = 1

(* C9: the cache holds what its writer returned (with cached = false), a
   miss returns cached = false, and a hit returns what the writer of the
   entry returned, every field the same but cached, which is true. *)
C9_CacheRoundTrip ==
    /\ kv.present => (JSONParse(kv.text) = kv.returned /\ ~kv.returned.cached)
    /\ \A p \in Invocations :
          /\ Hit(p) => /\ response[p].body = [origin[p] EXCEPT !.cached = TRUE]
                       /\ ~origin[p].cached
          /\ (Returned(p) /\ cached[p] = NoValue) => ~response[p].body.cached

(* C9 witness: one invocation returned a fresh result without risks and the
   other then read it back from the cache. *)
C9_Witness ==
    \E p, q \in Invocations :
        /\ Fresh(p) /\ Hit(q)
        /\ response[p].body.total_risks = 0
        /\ response[q].body = [response[p].body EXCEPT !.cached = TRUE]
        /\ now < kv.expires

(* The response text holds a well-formed JSON object somewhere. *)
HoldsJsonObject(text) ==
    \E i, j \in 1..Len(text) : i < j /\ IsJsonObject(SubSeq(text, i, j))

(* C10: a response without a well-formed JSON object, braces or not, is read
   by keyword scanning: critical, else negative, else neutral, and the score
   carries that sentiment's multiplier. *)
C10_MalformedJsonFallsBack ==
    \A p \in Invocations : \A i \in 1..Len(risks[p]) :
        (aiLog[p][i] # Rejected /\ ~HoldsJsonObject(aiLog[p][i])) =>
            /\ risks[p][i].sentiment = KeywordSentiment(aiLog[p][i])
            /\ risks[p][i].severity_score =
                   Score(results[p][i], KeywordSentiment(aiLog[p][i]), risks[p][i].trend)

(* The four values of the sentiment enumeration. *)
SentimentEnum == {"critical", "negative", "neutral", "positive"}

(* C11: the sentiment of every RiskAssessment is critical, negative, neutral
   or positive; when the response embeds a well-formed JSON object, its
   sentiment field is reported if it is one of the four, and neutral if the
   field is absent or holds anything else. *)
C11_SentimentInEnum ==
    \A p \in Invocations : \A i \in 1..Len(risks[p]) :
        /\ risks[p][i].sentiment \in SentimentEnum
        /\ (aiLog[p][i] # Rejected /\ IsJsonObject(JsonMatch(aiLog[p][i]))) =>
              risks[p][i].sentiment =
                  IF SentimentField(JsonMatch(aiLog[p][i])) \in SentimentEnum
                  THEN SentimentField(JsonMatch(aiLog[p][i]))
                  ELSE "neutral"

(* C12: velocity is count / max(avg_age_days, 0.5), also at age 0; the trend
   is accelerating above 5, rising above 2 and up to 5, stable otherwise,
   decided on the unrounded value; the reported velocity is the value
   rounded to one decimal (held in tenths).  The claimed values are computed
   on the exact quotient 4 * count / quarters. *)
C12_VelocityAndTrend ==
    \A p \in Invocations : \A i \in 1..Len(risks[p]) :
        LET count    == results[p][i].count
            quarters == IF results[p][i].avg_age_days < 2 THEN 2
                        ELSE results[p][i].avg_age_days
        IN  /\ risks[p][i].trend =
                   IF 4 * count > 5 * quarters THEN "accelerating"
                   ELSE IF 4 * count > 2 * quarters THEN "rising"
                   ELSE "stable"
            /\ risks[p][i].velocity = (80 * count + quarters) \div (2 * quarters)

(* C12 witness: a cohort of five complaints of one day on average, velocity
   exactly 5, reported as rising with velocity 5.0. *)
C12_Witness ==
    \E p \in Invocations : \E i \in 1..Len(risks[p]) :
        /\ results[p][i].count = 5 /\ results[p][i].avg_age_days = 4
        /\ risks[p][i].trend = "rising"
        /\ risks[p][i].velocity = 50

(* The lookup as the contract words it: the table entry of the long key,
   else the entry of the short key, else the generic message. *)
TableLookup(category, userType, trend) ==
    LET key   == category \o "_" \o userType \o "_" \o trend
        short == category \o "_" \o userType
    IN  IF key \in DOMAIN recommendations THEN recommendations[key]
        ELSE IF short \in DOMAIN recommendations THEN recommendations[short]
        ELSE GenericRecommendation

(* C13: the recommendation of every cohort is the table entry for
   category_usertype_trend if there is one, else the entry for
   category_usertype if there is one, else the generic message. *)
C13_RecommendationLookup ==
    \A p \in Invocations : \A i \in 1..Len(risks[p]) :
        risks[p][i].recommendation =
            TableLookup(results[p][i].category, results[p][i].user_type,
                        risks[p][i].trend)

(* C14: no retries.  An invocation never reads or writes the cache or
   queries the store more than once; one that missed the cache and ended has
   queried the store exactly once and, when the query returned, called the
   classifier exactly once per cohort, rejected calls included; one that hit
   the cache called neither the classifier nor the store. *)
C14_NoRetries ==
    \A p \in Invocations :
        /\ calls[p].get <= 1 /\ calls[p].put <= 1 /\ calls[p].query <= 1
        /\ calls[p].ai = Len(aiLog[p]) /\ calls[p].ai <= Len(results[p])
        /\ (pc[p] = "done" /\ cached[p] = NoValue /\ "cache_get" \notin faults[p]) =>
              /\ calls[p].query = 1
              /\ "db_query" \notin faults[p] => calls[p].ai = Len(results[p])
        /\ Hit(p) => (calls[p].ai = 0 /\ calls[p].query = 0 /\ calls[p].put = 0)

(* C14 witness: a miss over six cohorts, one of them with a rejected
   classifier call, ended with one query, six classifier calls, one cache
   read and one cache write. *)
C14_Witness ==
    \E p \in Invocations :
        /\ Fresh(p)
        /\ Len(results[p]) = 6
        /\ \E i \in 1..Len(aiLog[p]) : aiLog[p][i] = Rejected
        /\ calls[p] = [get |-> 1, query |-> 1, ai |-> 6, put |-> 1]

(* C15: concurrent invocations that miss the cache each return their own
   complete result with cached = false; every cache write replaces the entry
   by the whole result its writer returns, nothing else changes the entry
   (so that after the writes the entry is the last writer's result and never
   a mixture), and a reader within the TTL is returned the entry. *)
C15_LastWriteWins ==
    [][\A p \in Invocations :
         /\ (pc[p] = "cache_put" /\ pc'[p] = "done" /\ response'[p].status = "ok") =>
               /\ ~response'[p].body.cached
               /\ response'[p].body.total_risks = Len(results[p])
               /\ \E sorted \in SortOutcomes(risks[p]) :
                     response'[p].body = JSONParse(JSONStringify(Analysis(sorted, analysis[p].analysis_time)))
               /\ hasCache =>
                     /\ kv'.present
                     /\ JSONParse(kv'.text) = response'[p].body
                     /\ kv'.expires = now + expirationTtl
         /\ (pc[p] = "cache_get" /\ pc'[p] = "done" /\ response'[p].status = "ok") =>
               /\ now < kv.expires
               /\ response'[p].body = [JSONParse(kv.text) EXCEPT !.cached = TRUE]
         /\ (\A q \in Invocations :
                ~(pc[q] = "cache_put" /\ pc'[q] = "done" /\ response'[q].status = "ok"))
               => kv' = kv]_vars

(* C15 witness: both invocations missed the cache side by side (no time
   passed, so neither could have missed an entry the other had written),
   they returned different results, and the cache holds the second one's. *)
C15_Witness ==
    /\ hasCache /\ now = 0
    /\ Fresh("r1") /\ Fresh("r2")
    /\ response["r1"].body # response["r2"].body
    /\ kv.present /\ JSONParse(kv.text) = response["r2"].body

(* C16: the top-risks view returns as critical_alerts the first min(3,
   length) entries of the analysis' top_risks in order, as total_critical
   its critical_count, and as recommendation that of top_risks[0] when
   top_risks is not empty and 'No critical issues detected' otherwise. *)
C16_TopRisksView ==
    \A p \in Invocations : (Returned(p) /\ route[p] = "risks") =>
        LET top == response[p].body.top_risks
        IN  /\ view[p].critical_alerts = SubSeq(top, 1, IF Len(top) < 3 THEN Len(top) ELSE 3)
            /\ view[p].summary.total_critical = response[p].body.critical_count
            /\ view[p].summary.recommendation =
                   IF Len(top) > 0 THEN top[1].recommendation
                   ELSE "No critical issues detected"

(* C17: whatever the category, the user_type and the classifier's answer,
   the severity_score of every cohort is a non-negative integer, in the
   result computed and in the result returned. *)
C17_ScoreIsNatural ==
    \A p \in Invocations :
        /\ \A i \in 1..Len(risks[p]) : risks[p][i].severity_score \in Nat
        /\ Returned(p) =>
              \A i \in 1..Len(response[p].body.all_risks) :
                  response[p].body.all_risks[i].severity_score \in Nat

(* The score of ARCHITECTURE.md, in thousandths: count*10 * user type
   (enterprise 2.5) * category (performance, reliability, billing 1.5) *
   sentiment (critical 1.3). *)
DocumentedProduct(row, sentiment) ==
    row.count * 10
    * (IF row.user_type = "enterprise" THEN 25 ELSE 10)
    * (IF row.category \in {"performance", "reliability", "billing"} THEN 15 ELSE 10)
    * (IF sentiment = "critical" THEN 13 ELSE 10)

DocumentedCategories == {"performance", "reliability", "billing"}

(* C18, as stated: every cohort of a documented category scores what
   ARCHITECTURE.md computes, 146 for three performance complaints of
   enterprise users with critical sentiment. *)
C18_DocumentedAlgorithm ==
    \A p \in Invocations : \A i \in 1..Len(risks[p]) :
        results[p][i].category \in DocumentedCategories =>
            risks[p][i].severity_score =
                RoundHalfUp(DocumentedProduct(results[p][i], risks[p][i].sentiment))

(* C18, amended: for the categories the document names, the score is the
   rounded product of count*10, user type (enterprise 3.0), category
   (performance 2.0, reliability 1.8, billing 1.7), recency (1.5, 1.2, 1.0),
   sentiment (critical 1.4, negative 1.2) and trend (accelerating 1.3);
   three performance complaints of enterprise users with critical sentiment
   score 252 or more, 491 when half a day old. *)
C18_CurrentAlgorithm ==
    \A p \in Invocations : \A i \in 1..Len(risks[p]) :
        results[p][i].category \in DocumentedCategories =>
            /\ risks[p][i].severity_score =
                   RoundHalfUp(ClaimedProduct(results[p][i], risks[p][i].sentiment,
                                              risks[p][i].trend))
            /\ (/\ results[p][i].category = "performance"
                /\ results[p][i].user_type = "enterprise"
                /\ results[p][i].count = 3
                /\ risks[p][i].sentiment = "critical") =>
                   /\ risks[p][i].severity_score >= 252
                   /\ results[p][i].avg_age_days = 2 => risks[p][i].severity_score = 491

(* C18 witness: the document's example cohort, half a day old, scored 491. *)
C18_Witness ==
    \E p \in Invocations : \E i \in 1..Len(risks[p]) :
        /\ results[p][i] = ExampleRow
        /\ risks[p][i].sentiment = "critical"
        /\ risks[p][i].severity_score = 491

(* What no state shows of a result in progress: the risks so far are those
   of the first rows in row order, one classifier answer each; the result is
   assembled, written and returned only with a risk for every row. *)
NoPartialResult ==
    \A p \in Invocations :
        /\ Len(risks[p]) <= Len(results[p]) /\ Len(aiLog[p]) = Len(risks[p])
        /\ \A i \in 1..Len(risks[p]) :
              /\ risks[p][i].category = results[p][i].category
              /\ risks[p][i].user_type = results[p][i].user_type
        /\ pc[p] = "ai_run" => (analysis[p] = NoValue /\ response[p] = NoResponse)
        /\ analysis[p] # NoValue =>
              /\ Len(risks[p]) = Len(results[p])
              /\ analysis[p].total_risks = Len(results[p])
              /\ analysis[p].all_risks \in SortOutcomes(risks[p])
        /\ Fresh(p) => response[p].body.total_risks = Len(results[p])

(* C19: the classifier is called for one cohort at a time in the order of
   the rows, and the sort, critical_count and top_risks, the cache write and
   the response come only after the last cohort: no partial result is
   written to the cache or returned. *)
C19_SequentialThenAssemble ==
    /\ []NoPartialResult
    /\ [][\A p \in Invocations :
            /\ (pc[p] = "ai_run" /\ aiLog'[p] # aiLog[p]) =>
                  /\ Len(aiLog'[p]) = Len(aiLog[p]) + 1
                  /\ risks'[p] = Append(risks[p],
                                        Assess(results[p][Len(risks[p]) + 1],
                                               aiLog'[p][Len(aiLog'[p])]))
                  /\ kv' = kv /\ response'[p] = response[p]
                  /\ Len(risks'[p]) < Len(results[p]) =>
                        (pc'[p] = "ai_run" /\ analysis'[p] = NoValue)
            /\ (kv' # kv /\ pc[p] = "cache_put" /\ pc'[p] = "done") =>
                  JSONParse(kv'.text).total_risks = Len(results[p])]_vars

(* C19 witness: in the middle of the loop over six cohorts, three answered,
   nothing assembled, nothing written by this invocation, nothing returned. *)
C19_Witness ==
    \E p \in Invocations :
        /\ pc[p] = "ai_run"
        /\ Len(results[p]) = 6 /\ Len(risks[p]) = 3
        /\ analysis[p] = NoValue /\ response[p] = NoResponse
        /\ ~kv.present

(* C20: a result computed with a failed classifier call is cached like any
   other, and every read of the entry within the TTL ends the invocation
   with that cohort's sentiment neutral and its score without a sentiment
   multiplier, with no classifier call and no store query. *)
C20_DegradedResultIsCached ==
    [][\A p \in Invocations :
         /\ (pc[p] = "cache_put" /\ pc'[p] = "done" /\ response'[p].status = "ok"
             /\ hasCache) =>
               (kv'.answers = aiLog[p] /\ kv'.rows = results[p]
                /\ JSONParse(kv'.text) = response'[p].body)
         /\ (pc[p] = "cache_get" /\ pc'[p] # "cache_get" /\ hasCache
             /\ kv.present /\ now < kv.expires /\ "cache_get" \notin faults'[p]) =>
               /\ Hit(p)'
               /\ calls'[p].ai = 0 /\ calls'[p].query = 0
               /\ \A i \in 1..Len(kv.answers) : kv.answers[i] = Rejected =>
                     \E j \in 1..Len(response'[p].body.all_risks) :
                        LET r == response'[p].body.all_risks[j]
                        IN  /\ r.category = kv.rows[i].category
                            /\ r.user_type = kv.rows[i].user_type
                            /\ r.sentiment = "neutral"
                            /\ r.severity_score =
                                   JsonNumber(Score(kv.rows[i], "neutral", Trend(kv.rows[i])))]_vars

(* C20 witness: some time after the write, within the TTL, an invocation was
   returned from the cache a result whose classifier call had failed, with
   the cohort neutral. *)
C20_Witness ==
    \E p \in Invocations :
        /\ Hit(p) /\ kv.present /\ origin[p] = kv.returned
        /\ now > 0 /\ now < kv.expires
        /\ Len(kv.answers) = 1 /\ kv.answers[1] = Rejected
        /\ response[p].body.all_risks[1].sentiment = "neutral"
        /\ calls[p].ai = 0

(* C21: the top-risks view returns 'No critical issues detected' as its
   recommendation exactly when the analysis has no risks; with one cohort or
   more it returns the recommendation of the first of all_risks, whatever
   critical_count is. *)
C21_FixedStringIffNoRisks ==
    \A p \in Invocations : (Returned(p) /\ route[p] = "risks") =>
        /\ (view[p].summary.recommendation = "No critical issues detected")
              <=> (response[p].body.total_risks = 0)
        /\ response[p].body.total_risks > 0 =>
              view[p].summary.recommendation =
                  response[p].body.all_risks[1].recommendation

(* The values of trend. *)
TrendValues == {"accelerating", "rising", "stable"}

(* C22: no category, user_type and trend make generateRecommendation return
   the table's 'documentation' entry; a cohort of category documentation
   gets the generic message; and the sentiment does not change the
   recommendation.  The function is applied to every cohort of the query,
   at its own trend and sentiment and at every other. *)
C22_DocumentationUnreachable ==
    \A p \in Invocations : \A i \in 1..Len(risks[p]) :
        /\ risks[p][i].recommendation # recommendations["documentation"]
        /\ results[p][i].category = "documentation" =>
              risks[p][i].recommendation = GenericRecommendation
        /\ \A t \in TrendValues, s \in SentimentEnum \cup {"angry"} :
              LET r == generateRecommendation(results[p][i].category,
                                              results[p][i].user_type, t, s)
              IN  /\ r # recommendations["documentation"]
                  /\ r = generateRecommendation(results[p][i].category,
                                                results[p][i].user_type, t, "neutral")
                  /\ t = risks[p][i].trend => r = risks[p][i].recommendation
                  /\ results[p][i].category = "documentation" => r = GenericRecommendation

(* C22 witness: a cohort of category documentation, accelerating and with
   critical sentiment, assessed with the generic message. *)
C22_Witness ==
    \E p \in Invocations : \E i \in 1..Len(risks[p]) :
        /\ results[p][i].category = "documentation"
        /\ risks[p][i].trend = "accelerating"
        /\ risks[p][i].sentiment = "critical"
        /\ risks[p][i].recommendation = GenericRecommendation

====
